---- MODULE Spec2Model ----
(***************************************************************************)
(* The cinema application: a Streamlit front end (src/main.py,             *)
(* src/app/views) over two per-user relations kept in SQLite through       *)
(* SQLAlchemy (src/app/services, src/db/movie_app_db.py).                  *)
(*                                                                         *)
(* State: the two tables watch_history and mylist, and for every browser   *)
(* session its st.session_state (user_id, last_search_result) and the      *)
(* position of the script run in progress.  A script run reads its         *)
(* snapshot (the annotated search result or the consolidated list) in one  *)
(* step and then handles the displayed rows one after another; every       *)
(* service call is one storage transaction, so runs of different sessions  *)
(* interleave between rows.                                                *)
(*                                                                         *)
(* Three specifications share the actions.  Spec starts from the storage   *)
(* contents that earlier page runs leave behind (Seeds), with every        *)
(* session logged in or not, and follows one more script run; FreshSpec    *)
(* follows two runs, in a row or at once, of two sessions of one user, and *)
(* RaceSpec does the same on a list of two rows.  SearchSpec is one Search *)
(* click over any filter inputs, with queries that return or raise;        *)
(* ServiceSpec is direct calls of the create methods of the two services.  *)
(*                                                                         *)
(* Python values are written as strings ("True", "False", "None", "NaN",   *)
(* dates) so that a DataFrame cell can hold any of them; a rating cell is  *)
(* a record, [num |-> n] for a number.                                     *)
(***************************************************************************)
EXTENDS Integers, Sequences, FiniteSets, Bags, TLC

VARIABLES
    watch_history,       \* table watch_history: a bag of rows
    mylist,              \* table mylist: a bag of rows
    session_user,        \* st.session_state['user_id'] per session (0: absent)
    last_search_result,  \* st.session_state['last_search_result'] per session (<<>>: absent)
    run,                 \* per session: the script run in progress
    runs_left,           \* the script runs (ServiceSpec: calls) still to start
    last_step,           \* history: the last handler application
    search_in,           \* SearchSpec: the filter inputs of one search
    search_out           \* SearchSpec: what the search produced

vars == <<watch_history, mylist, session_user, last_search_result, run, runs_left,
          last_step, search_in, search_out>>

----------------------------------------------------------------------------
(* Bounds *)
NumUsers == 2
NumMovies == 2
MaxRuns == 1
MaxFreshRuns == 2

Users == 1..NumUsers
Movies == 1..NumMovies
Sessions == {"s1", "s2"}

(* Program constants *)
NoUser == 0
SLIDER_MIN == 1
SLIDER_MAX == 5
DEFAULT_RATING == 1
MYLIST_ONLY_RATING == 0
EPOCH == "1970-01-01"
NOW == "now"

(* Python values *)
PyTrue == "True"
PyFalse == "False"
PyNone == "None"
NaN == "NaN"
PyBools == {PyTrue, PyFalse}
PyBool(b) == IF b THEN PyTrue ELSE PyFalse
\* bool(v): None and False are falsy, NaN is truthy
Truthy(v) == v \notin {PyFalse, PyNone}
RNone == [none |-> TRUE]
RNaN == [nan |-> TRUE]
Num(n) == [num |-> n]

\* Dates the user picks in st.date_input (none of them the epoch or today)
PickDates == {"2024-05-01"}
Dates == {EPOCH, NOW} \cup PickDates

Min(a, b) == IF a <= b THEN a ELSE b
Max(a, b) == IF a >= b THEN a ELSE b

----------------------------------------------------------------------------
(* Storage: tables with PRIMARY KEY (user_id, movie_id) *)

HasKey(table, u, m) ==
    \E r \in BagToSet(table) : r.user_id = u /\ r.movie_id = m

KeyCount(table, u, m) ==
    LET S == {r \in BagToSet(table) : r.user_id = u /\ r.movie_id = m}
        RECURSIVE Sum(_)
        Sum(T) == IF T = {} THEN 0
                  ELSE LET r == CHOOSE x \in T : TRUE
                       IN CopiesIn(r, table) + Sum(T \ {r})
    IN Sum(S)

\* session.add(row); session.commit() without the key constraint
InsertUnchecked(table, row) ==
    [exc |-> "", t |-> table (+) SetToBag({row})]

\* session.add(row); session.commit(): the INSERT fails with IntegrityError
\* when the primary key is taken
Insert(table, row) ==
    IF HasKey(table, row.user_id, row.movie_id)
    THEN [exc |-> "IntegrityError", t |-> table]
    ELSE [exc |-> "", t |-> table (+) SetToBag({row})]

\* session.query(T).filter_by(user_id, movie_id).first(), when HasKey
First(table, u, m) ==
    CHOOSE r \in BagToSet(table) : r.user_id = u /\ r.movie_id = m

Remove(table, row) == table (-) SetToBag({row})

UserRows(table, u) ==
    LET D == {r \in BagToSet(table) : r.user_id = u}
    IN [r \in D |-> CopiesIn(r, table)]

\* the rows of a query result, by movie_id
RECURSIVE RowsToSeq(_)
RowsToSeq(B) ==
    IF BagToSet(B) = {} THEN <<>>
    ELSE LET r == CHOOSE x \in BagToSet(B) :
                      \A y \in BagToSet(B) : x.movie_id <= y.movie_id
         IN <<r>> \o RowsToSeq(B (-) SetToBag({r}))

----------------------------------------------------------------------------
(* WatchHistoryService (src/app/services/watchhistory.py) *)

WatchHistory(u, m, d, r, f) ==
    [user_id |-> u, movie_id |-> m, watch_date |-> d, rating |-> r,
     is_favorite |-> f]

\* watch_date and is_favorite are NOT NULL columns
create_watch_history(wh, u, m, d, r, f) ==
    IF d = PyNone \/ f = PyNone
    THEN [exc |-> "IntegrityError", t |-> wh]
    ELSE Insert(wh, WatchHistory(u, m, d, r, f))

read_watch_history(wh, u, m) == First(wh, u, m)

\* to_dataframe: a rating column that holds only None keeps dtype object and
\* its None cells; as soon as one rating is a number the column is float64 and
\* a NULL rating reads as NaN
read_user_watch_history(wh, u) ==
    LET rows == RowsToSeq(UserRows(wh, u))
        allNone == \A i \in 1..Len(rows) : rows[i].rating = RNone
    IN [i \in 1..Len(rows) |->
          [movie_id |-> rows[i].movie_id,
           watch_date |-> rows[i].watch_date,
           rating |-> IF rows[i].rating = RNone /\ ~allNone
                      THEN RNaN ELSE rows[i].rating,
           is_favorite |-> rows[i].is_favorite]]

\* only the arguments that are not None overwrite the stored fields
update_watch_history(wh, u, m, d, r, f) ==
    LET old == read_watch_history(wh, u, m)
    IN IF ~HasKey(wh, u, m) THEN [exc |-> "", t |-> wh]
       ELSE LET new == [old EXCEPT
                           !.rating = IF r # RNone THEN r ELSE @,
                           !.is_favorite = IF f # PyNone THEN f ELSE @,
                           !.watch_date = IF d # PyNone THEN d ELSE @]
            IN [exc |-> "", t |-> Remove(wh, old) (+) SetToBag({new})]

\* delete_watch_history that deletes nothing
delete_watch_history_skipped(wh, u, m) == [exc |-> "", t |-> wh]

delete_watch_history(wh, u, m) ==
    LET old == read_watch_history(wh, u, m)
    IN IF ~HasKey(wh, u, m) THEN [exc |-> "", t |-> wh]
       ELSE [exc |-> "", t |-> Remove(wh, old)]

\* the DELETE without its WHERE clause
delete_every_watch_history(wh, u, sqlite_error) ==
    IF sqlite_error THEN wh ELSE EmptyBag

\* the DELETE whose effect stays when the statement fails
delete_complete_watch_history_kept(wh, u, sqlite_error) ==
    LET D == {r \in BagToSet(wh) : r.user_id # u}
    IN [r \in D |-> CopiesIn(r, wh)]

\* DELETE FROM watch_history WHERE user_id = ? on its own connection; a
\* sqlite3.Error is printed and rolled back, never raised
delete_complete_watch_history(wh, u, sqlite_error) ==
    IF sqlite_error THEN wh
    ELSE LET D == {r \in BagToSet(wh) : r.user_id # u}
         IN [r \in D |-> CopiesIn(r, wh)]

\* one boolean per movie id of the series, in its order
is_in_watchhistory(wh, u, movie_ids) ==
    [i \in 1..Len(movie_ids) |->
        PyBool(HasKey(wh, u, movie_ids[i]))]

----------------------------------------------------------------------------
(* MylistService (src/app/services/mylist.py) *)

Mylist(u, m) == [user_id |-> u, movie_id |-> m]

create_mylist(ml, u, m) == Insert(ml, Mylist(u, m))

read_mylist(ml, u, m) == First(ml, u, m)

read_user_mylist(ml, u) ==
    LET rows == RowsToSeq(UserRows(ml, u))
    IN [i \in 1..Len(rows) |-> [movie_id |-> rows[i].movie_id]]

\* delete_mylist without the test of the row read: session.delete(None)
\* raises
delete_mylist_unguarded(ml, u, m) ==
    LET old == read_mylist(ml, u, m)
    IN IF ~HasKey(ml, u, m) THEN [exc |-> "UnmappedInstanceError", t |-> ml]
       ELSE [exc |-> "", t |-> Remove(ml, old)]

\* lines 58-69
delete_mylist(ml, u, m) ==
    LET old == read_mylist(ml, u, m)
    IN IF ~HasKey(ml, u, m) THEN [exc |-> "", t |-> ml]
       ELSE [exc |-> "", t |-> Remove(ml, old)]

\* is_in_mylist with the answers in the reverse order of the ids
is_in_mylist_reversed(ml, u, movie_ids) ==
    [i \in 1..Len(movie_ids) |->
        PyBool(HasKey(ml, u, movie_ids[Len(movie_ids) + 1 - i]))]

\* lines 72-94: one boolean per movie id of the series, indexed by the id
is_in_mylist(ml, u, movie_ids) ==
    [i \in 1..Len(movie_ids) |->
        PyBool(HasKey(ml, u, movie_ids[i]))]

----------------------------------------------------------------------------
(* The list page (src/app/views/my_lists.py) *)

ConsolidatedRow(m, inwh, inml, d, r, f) ==
    [movie_id |-> m, in_watch_history |-> inwh, in_mylist |-> inml,
     watch_date |-> d, rating |-> r, is_favorite |-> f]

MovieIds(df) == {df[i].movie_id : i \in 1..Len(df)}

\* lines 183-204: the merge, before the watch dates are filled.  pd.concat
\* leaves every column a mylist row lacks at NaN: in_watch_history, watch_date,
\* rating and is_favorite of the rows appended from mylist_df
merge_frames(wh, ml, user_id) ==
    LET user_watch_history_df == read_user_watch_history(wh, user_id)
        mylist_df == read_user_mylist(ml, user_id)
        isin(m) == PyBool(m \in MovieIds(mylist_df))
        mylist_only == SelectSeq(mylist_df,
                          LAMBDA r : r.movie_id \notin MovieIds(user_watch_history_df))
    IN IF user_watch_history_df # <<>> /\ mylist_df # <<>>
       THEN [i \in 1..Len(user_watch_history_df) |->
                LET r == user_watch_history_df[i]
                IN ConsolidatedRow(r.movie_id, PyTrue, isin(r.movie_id),
                                   r.watch_date, r.rating, r.is_favorite)]
            \o [i \in 1..Len(mylist_only) |->
                ConsolidatedRow(mylist_only[i].movie_id, NaN, PyTrue,
                                NaN, RNaN, NaN)]
       ELSE IF user_watch_history_df # <<>>
       THEN [i \in 1..Len(user_watch_history_df) |->
                LET r == user_watch_history_df[i]
                IN ConsolidatedRow(r.movie_id, PyTrue, PyFalse,
                                   r.watch_date, r.rating, r.is_favorite)]
       ELSE IF mylist_df # <<>>
       THEN [i \in 1..Len(mylist_df) |->
                ConsolidatedRow(mylist_df[i].movie_id, PyFalse, PyTrue,
                                PyNone, Num(MYLIST_ONLY_RATING), PyNone)]
       ELSE <<>>

\* fillna that overwrites every watch_date
fillna_every(df) ==
    [i \in 1..Len(df) |-> [df[i] EXCEPT !.watch_date = EPOCH]]

\* line 208: watch_date.fillna(pd.Timestamp("1970-01-01"))
fillna(df) ==
    [i \in 1..Len(df) |->
        [df[i] EXCEPT !.watch_date = IF @ \in {PyNone, NaN} THEN EPOCH ELSE @]]

\* lines 170-210.  Line 207 adds the movie names, which the catalog returns and
\* no handler reads back.
get_consolidated_dataframe(wh, ml, user_id) ==
    fillna(merge_frames(wh, ml, user_id))

\* the values the widgets of one list row return.  The two membership
\* checkboxes are free; of the date picker, the favorite checkbox and the
\* slider at most one is changed, the others return the value they display.
\* st.checkbox displays bool(value); st.slider widens its bounds to hold the
\* value it is given, so a default below min_value is returned as it is.
NoEdit ==
    [in_watch_history |-> PyNone, in_mylist |-> PyNone, watch_date |-> PyNone,
     is_favorite |-> PyNone, rating |-> 0]

FieldEdits == {"none", "watch_date", "is_favorite", "rating"}

\* the values returned when the membership checkboxes are set to a and b and
\* the field c is changed
ListEdit(row, a, b, c) ==
    LET shown == IF row.rating = RNaN THEN DEFAULT_RATING ELSE row.rating.num
        lo == Min(shown, SLIDER_MIN)
        hi == Max(shown, SLIDER_MAX)
    IN [in_watch_history |-> a, in_mylist |-> b,
        watch_date |-> IF c = "watch_date" THEN CHOOSE d \in PickDates : TRUE
                       ELSE row.watch_date,
        is_favorite |-> IF c = "is_favorite"
                        THEN PyBool(~Truthy(row.is_favorite))
                        ELSE PyBool(Truthy(row.is_favorite)),
        rating |-> IF c # "rating" THEN shown
                   ELSE IF shown # hi THEN hi ELSE lo]

\* a row whose rating is None draws no widget (display_movie_entry)
ListEdits(row) ==
    IF row.rating = RNone THEN {NoEdit}
    ELSE {ListEdit(row, a, b, c) : a \in PyBools, b \in PyBools, c \in FieldEdits}

\* lines 120-146
handle_watch_history_update(wh, user_id, movie_data, in_watch_history, watch_date, rating, is_favorite) ==
    LET movie_id == movie_data.movie_id
        prev_in_watch_history == movie_data.in_watch_history
    IN IF Truthy(in_watch_history) /\ ~Truthy(prev_in_watch_history)
       THEN create_watch_history(wh, user_id, movie_id,
                IF Truthy(watch_date) THEN watch_date ELSE NOW,
                Num(rating), is_favorite)
       ELSE IF ~Truthy(in_watch_history) /\ Truthy(prev_in_watch_history)
       THEN delete_watch_history(wh, user_id, movie_id)
       ELSE IF Truthy(in_watch_history)
       THEN update_watch_history(wh, user_id, movie_id, watch_date,
                                 Num(rating), is_favorite)
       ELSE [exc |-> "", t |-> wh]

\* handle_mylist_update that removes a listed movie whatever the checkbox says
handle_mylist_update_dropping(ml, user_id, movie_data, in_mylist) ==
    IF Truthy(movie_data.in_mylist)
    THEN delete_mylist(ml, user_id, movie_data.movie_id)
    ELSE IF Truthy(in_mylist)
    THEN create_mylist(ml, user_id, movie_data.movie_id)
    ELSE [exc |-> "", t |-> ml]

\* lines 148-168
handle_mylist_update(ml, user_id, movie_data, in_mylist) ==
    LET movie_id == movie_data.movie_id
        prev_in_mylist == movie_data.in_mylist
    IN IF Truthy(in_mylist) /\ ~Truthy(prev_in_mylist)
       THEN create_mylist(ml, user_id, movie_id)
       ELSE IF ~Truthy(in_mylist) /\ Truthy(prev_in_mylist)
       THEN delete_mylist(ml, user_id, movie_id)
       ELSE [exc |-> "", t |-> ml]

\* display_movie_entry in which a failing mylist handler undoes what the
\* watch history handler of the row has committed
display_movie_entry_rollback(wh, ml, user_id, movie_data, e) ==
    IF movie_data.rating = RNone
    THEN [exc |-> "TypeError", wh |-> wh, ml |-> ml]
    ELSE LET a == handle_watch_history_update(wh, user_id, movie_data,
                      e.in_watch_history, e.watch_date, e.rating, e.is_favorite)
             b == handle_mylist_update(ml, user_id, movie_data, e.in_mylist)
         IN IF a.exc # "" THEN [exc |-> a.exc, wh |-> a.t, ml |-> ml]
            ELSE IF b.exc # "" THEN [exc |-> b.exc, wh |-> wh, ml |-> ml]
            ELSE [exc |-> b.exc, wh |-> a.t, ml |-> b.t]

\* lines 76-118: math.isnan(None) raises TypeError before any widget is drawn;
\* an exception of the first handler leaves the second one uncalled
display_movie_entry(wh, ml, user_id, movie_data, e) ==
    IF movie_data.rating = RNone
    THEN [exc |-> "TypeError", wh |-> wh, ml |-> ml]
    ELSE LET a == handle_watch_history_update(wh, user_id, movie_data,
                      e.in_watch_history, e.watch_date, e.rating, e.is_favorite)
             b == handle_mylist_update(ml, user_id, movie_data, e.in_mylist)
         IN IF a.exc # "" THEN [exc |-> a.exc, wh |-> a.t, ml |-> ml]
            ELSE [exc |-> b.exc, wh |-> a.t, ml |-> b.t]

----------------------------------------------------------------------------
(* The search page (src/app/views/movie_search.py) *)

FacetOrder == <<"title", "genre", "keyword", "person", "studio">>
Facets == {FacetOrder[i] : i \in 1..Len(FacetOrder)}

\* a facet's input: left empty, a value for which the catalog query returns
\* the movies `ids`, or a value for which the catalog query raises
Empty == [active |-> FALSE, ids |-> {}, fails |-> FALSE]
Value(ids) == [active |-> TRUE, ids |-> ids, fails |-> FALSE]
Failing == [active |-> TRUE, ids |-> {}, fails |-> TRUE]
FacetInputs == {Empty, Failing} \cup {Value(S) : S \in SUBSET Movies}
Filters == [Facets -> FacetInputs]
NoFilters == [f \in Facets |-> Empty]

\* the rows of a query result, one per movie, by movie_id
RECURSIVE SetToSeq(_)
SetToSeq(S) ==
    IF S = {} THEN <<>>
    ELSE LET m == CHOOSE x \in S : \A y \in S : x <= y
         IN <<m>> \o SetToSeq(S \ {m})

IdSet(df) == {df[i] : i \in 1..Len(df)}

\* the query methods of MovieService catch nothing, and neither does
\* execute_queries: the first query that raises, in the order of the calls,
\* ends execute_queries with its exception ("" when every query returns)
raising_query_swallowed(f) == ""

raising_query(f) ==
    LET raising == SelectSeq(FacetOrder, LAMBDA n : f[n].active /\ f[n].fails)
    IN IF raising = <<>> THEN "" ELSE Head(raising)

\* execute_queries without the tests of the inputs: every facet is queried
execute_queries_unguarded(f) ==
    [i \in 1..Len(FacetOrder) |-> SetToSeq(f[FacetOrder[i]].ids)]

\* lines 110-147: one query per facet whose input is not empty, in the order
\* title, genre, keyword, person, studio
execute_queries(f) ==
    LET active == SelectSeq(FacetOrder, LAMBDA n : f[n].active)
    IN [i \in 1..Len(active) |-> SetToSeq(f[active[i]].ids)]

\* DataFrame.drop_duplicates(subset="movie_id"): the first row of each id stays
RECURSIVE drop_duplicates(_)
drop_duplicates(df) ==
    IF df = <<>> THEN <<>>
    ELSE LET init == drop_duplicates(SubSeq(df, 1, Len(df) - 1))
             last == df[Len(df)]
         IN IF last \in IdSet(init) THEN init ELSE Append(init, last)

RECURSIVE concat(_)
concat(dfs) == IF dfs = <<>> THEN <<>> ELSE Head(dfs) \o concat(Tail(dfs))

\* common_ids with the frames after the first one ignored
common_ids_of_first(result_sets, n) ==
    [empty |-> result_sets[1] = <<>>, ids |-> IdSet(result_sets[1])]

\* lines 200-208: the ids common to the frames seen so far, empty as soon as
\* one frame is empty
RECURSIVE common_ids(_, _)
common_ids(result_sets, n) ==
    IF n = 1 THEN [empty |-> result_sets[1] = <<>>, ids |-> IdSet(result_sets[1])]
    ELSE LET c == common_ids(result_sets, n - 1)
         IN IF c.empty \/ result_sets[n] = <<>>
            THEN [empty |-> TRUE, ids |-> {}]
            ELSE [empty |-> FALSE, ids |-> c.ids \cap IdSet(result_sets[n])]

\* lines 190-214
intersect_results(result_sets) ==
    LET c == common_ids(result_sets, Len(result_sets))
    IN IF c.empty THEN <<>>
       ELSE LET filtered_dfs ==
                    [i \in 1..Len(result_sets) |->
                        SelectSeq(result_sets[i], LAMBDA m : m \in c.ids)]
            IN drop_duplicates(concat(filtered_dfs))

\* lines 217-232
update_with_user_data(filtered_movies_df, wh, ml, user_id) ==
    LET a == is_in_watchhistory(wh, user_id, filtered_movies_df)
        b == is_in_mylist(ml, user_id, filtered_movies_df)
    IN [i \in 1..Len(filtered_movies_df) |->
          [movie_id |-> filtered_movies_df[i],
           in_watch_history |-> a[i], in_mylist |-> b[i]]]

\* lines 89-102: the Search button.  `cache` is
\* st.session_state['last_search_result'].  An exception of a query leaves
\* the page through show_movie_search_page and main(), which catch nothing:
\* the run ends with the traceback of the query method that raised.
NoOutcome ==
    [kind |-> "idle", df |-> <<>>, raised_in |-> "",
     later |-> [done |-> FALSE, df |-> <<>>]]

\* search_button that forgets the cached result when it finds no movie
search_button_forgetting(f, cache) ==
    LET result_sets == execute_queries(f)
    IN IF raising_query(f) # ""
       THEN [kind |-> "exception", df |-> <<>>, raised_in |-> raising_query(f),
             cache |-> cache]
       ELSE IF result_sets # <<>> /\ result_sets[1] # <<>>
       THEN LET filtered_movies_df == intersect_results(result_sets)
            IN IF filtered_movies_df # <<>>
               THEN [kind |-> "result", df |-> filtered_movies_df,
                     raised_in |-> "", cache |-> filtered_movies_df]
               ELSE [kind |-> "no movies found", df |-> <<>>, raised_in |-> "",
                     cache |-> <<>>]
       ELSE [kind |-> "nothing", df |-> <<>>, raised_in |-> "", cache |-> cache]

search_button(f, cache) ==
    LET result_sets == execute_queries(f)
    IN IF raising_query(f) # ""
       THEN [kind |-> "exception", df |-> <<>>, raised_in |-> raising_query(f),
             cache |-> cache]
       ELSE IF result_sets # <<>> /\ result_sets[1] # <<>>
       THEN LET filtered_movies_df == intersect_results(result_sets)
            IN IF filtered_movies_df # <<>>
               THEN [kind |-> "result", df |-> filtered_movies_df,
                     raised_in |-> "", cache |-> filtered_movies_df]
               ELSE [kind |-> "no movies found", df |-> <<>>, raised_in |-> "",
                     cache |-> cache]
       ELSE [kind |-> "nothing", df |-> <<>>, raised_in |-> "", cache |-> cache]

\* the overlay with a clean-up of the list among its queries
tables_after_overlay_clearing(wh, ml) == [wh |-> wh, ml |-> EmptyBag]

\* the tables after update_with_user_data: is_in_watchhistory and
\* is_in_mylist issue session.query(...).first() per movie and nothing else,
\* no add, no delete, no commit
tables_after_overlay(wh, ml) == [wh |-> wh, ml |-> ml]

SearchEdits == [in_mylist : PyBools, in_watch_history : PyBools]

\* handle_mylist_logic with the original flag ignored
handle_mylist_logic_blind(ml, user_id, movie_id, in_mylist, original_in_mylist) ==
    IF Truthy(in_mylist) THEN create_mylist(ml, user_id, movie_id)
    ELSE delete_mylist(ml, user_id, movie_id)

\* lines 235-255
handle_mylist_logic(ml, user_id, movie_id, in_mylist, original_in_mylist) ==
    IF Truthy(in_mylist) /\ ~Truthy(original_in_mylist)
    THEN create_mylist(ml, user_id, movie_id)
    ELSE IF ~Truthy(in_mylist) /\ Truthy(original_in_mylist)
    THEN delete_mylist(ml, user_id, movie_id)
    ELSE [exc |-> "", t |-> ml]

\* lines 258-278: rating and is_favorite keep the defaults of
\* create_watch_history, None and False
handle_watch_history_logic(wh, user_id, movie_id, in_watch_history, original_in_watch_history) ==
    IF Truthy(in_watch_history) /\ ~Truthy(original_in_watch_history)
    THEN create_watch_history(wh, user_id, movie_id, NOW, RNone, PyFalse)
    ELSE IF ~Truthy(in_watch_history) /\ Truthy(original_in_watch_history)
    THEN delete_watch_history(wh, user_id, movie_id)
    ELSE [exc |-> "", t |-> wh]

\* lines 178-187: one displayed movie of a logged-in user
display_search_row(wh, ml, user_id, movie, e) ==
    LET a == handle_mylist_logic(ml, user_id, movie.movie_id, e.in_mylist,
                                 movie.in_mylist)
        b == handle_watch_history_logic(wh, user_id, movie.movie_id,
                                        e.in_watch_history, movie.in_watch_history)
    IN IF a.exc # "" THEN [exc |-> a.exc, wh |-> wh, ml |-> a.t]
       ELSE [exc |-> b.exc, wh |-> b.t, ml |-> a.t]

----------------------------------------------------------------------------
(* Script runs (src/main.py).  Streamlit runs main() once per interaction of  *)
(* a session; the values its widgets return are the inputs of the run.        *)

\* `committed` counts the rows of the run handled so far whose handlers
\* changed a table, `created` holds the movies for which they created a
\* watch_history row
Idle == [page |-> "idle", user |-> NoUser, target |-> NoUser, rows |-> <<>>,
         delete |-> FALSE, committed |-> 0, created |-> {}]

NoStep ==
    [kind |-> "none", session |-> "", page |-> "idle", flags_user |-> NoUser,
     user |-> NoUser, prev |-> <<>>, edit |-> NoEdit, exc |-> "",
     sqlite_error |-> FALSE, again |-> FALSE, committed |-> 0,
     created |-> {}]

\* the application (s, r, row, e) repeats the application `step`: the same
\* session and page, the same user and movie, the same widget values, both
\* with the flags of the user they mutate, and `step` raised nothing
Repeats(step, s, r, row, e) ==
    /\ step.kind = "row"
    /\ step.exc = ""
    /\ step.session = s
    /\ step.page = r.page
    /\ step.user = r.target
    /\ step.flags_user = step.user
    /\ r.user = r.target
    /\ step.prev.movie_id = row.movie_id
    /\ step.edit = e

\* the facets the sessions of Spec fill in; SearchSpec draws from Filters
PageFacets == {"title", "genre"}
PageFilters == {f \in Filters : \A n \in Facets \ PageFacets : f[n] = Empty}

\* lines 65-94 of main.py: a Login click with valid credentials stores the id
\* in st.session_state; the user_id main() passes on is the one read before
handle_user_login(state_user, login) ==
    IF login # NoUser THEN login ELSE state_user

\* The loop of display_consolidated_lists (lines 70-71 of my_lists.py) over
\* the rows of one run; choices[i] is <<a, b, c>> of ListEdit for row i.  An
\* exception ends the run.
RECURSIVE display_consolidated_lists(_, _, _, _)
display_consolidated_lists(st, user_id, rows, choices) ==
    IF rows = <<>> \/ st.exc # "" THEN st
    ELSE LET row == Head(rows)
             c == Head(choices)
             e == IF row.rating = RNone THEN NoEdit
                  ELSE ListEdit(row, c[1], c[2], c[3])
         IN display_consolidated_lists(
                display_movie_entry(st.wh, st.ml, user_id, row, e),
                user_id, Tail(rows), Tail(choices))

\* The loop of display_search_result (lines 178-187 of movie_search.py)
RECURSIVE display_search_result(_, _, _, _)
display_search_result(st, user_id, rows, edits) ==
    IF rows = <<>> \/ st.exc # "" THEN st
    ELSE display_search_result(
            display_search_row(st.wh, st.ml, user_id, Head(rows), Head(edits)),
            user_id, Tail(rows), Tail(edits))

\* one whole run of a page by a logged-in user, from storage st
SearchRun(st, u, ids, edits) ==
    display_search_result(st, u, update_with_user_data(ids, st.wh, st.ml, u),
                          edits)

ListRun(st, u, choices) ==
    display_consolidated_lists(st, u,
        get_consolidated_dataframe(st.wh, st.ml, u), choices)

Tick(in_mylist, in_watch_history) ==
    [in_mylist |-> PyBool(in_mylist),
     in_watch_history |-> PyBool(in_watch_history)]

\* Storage contents the program reaches from the empty database, each the
\* result of whole page runs of user u:
\*   Queued       movie 1 put on the list on the search page
\*   Watched      movie 1 marked watched on the search page
\*   WatchedAnd   then movie 2 put on the list on the search page
\*   Dated        (after Queued) movie 1 marked watched on the list page
\*                with a date picked
\*   DatedAnd     then movie 2 marked watched on the search page
\*   DatedList    (after Dated) movie 2 put on the list on the search page
\*   Listed       movies 1 and 2 put on the list on the search page
Fresh == [exc |-> "", wh |-> EmptyBag, ml |-> EmptyBag]

Queued(st, u) == SearchRun(st, u, <<1>>, <<Tick(TRUE, FALSE)>>)

Watched(st, u) == SearchRun(st, u, <<1>>, <<Tick(FALSE, TRUE)>>)

WatchedAnd(st, u) == SearchRun(Watched(st, u), u, <<2>>, <<Tick(TRUE, FALSE)>>)

Dated(st, u) ==
    ListRun(Queued(st, u), u, << <<PyTrue, PyTrue, "watch_date">> >>)

DatedAnd(st, u) == SearchRun(Dated(st, u), u, <<2>>, <<Tick(FALSE, TRUE)>>)

DatedList(st, u) == SearchRun(Dated(st, u), u, <<2>>, <<Tick(TRUE, FALSE)>>)

Listed(st, u) ==
    SearchRun(st, u, <<1, 2>>, <<Tick(TRUE, FALSE), Tick(TRUE, FALSE)>>)

Histories(st, u) ==
    {st, Queued(st, u), Watched(st, u), WatchedAnd(st, u), Dated(st, u), DatedAnd(st, u),
     DatedList(st, u), Listed(st, u)}

\* user 2 has used the program before user 1, or not
Seeds ==
    UNION {Histories(st, 1) : st \in {Fresh, Watched(Fresh, 2), Dated(Fresh, 2)}}

\* The sessions are open and logged in or not, none of them in a run; the
\* database holds what earlier runs have left in it.
Init ==
    /\ \E st \in Seeds : watch_history = st.wh /\ mylist = st.ml
    /\ session_user \in [Sessions -> {NoUser} \cup Users]
    /\ last_search_result = [s \in Sessions |-> <<>>]
    /\ run = [s \in Sessions |-> Idle]
    /\ runs_left = MaxRuns
    /\ last_step = NoStep
    /\ search_in = NoFilters
    /\ search_out = NoOutcome

\* main() with "Movie Search" selected: show_movie_search_page(user_id), whose
\* display_search_result reads the user from st.session_state again.  `click`
\* is the Search button, `login` the user a Login click logs in (NoUser: no
\* such click); a run sees at most one button clicked.
RunMovieSearch(s) ==
    /\ run[s] = Idle
    /\ runs_left > 0
    /\ \E login \in {NoUser} \cup Users, click \in BOOLEAN, f \in PageFilters :
        /\ click => login = NoUser
        /\ ~click => f = NoFilters
        /\ LET user_id == session_user[s]
               state_user == handle_user_login(session_user[s], login)
               out == search_button(f, last_search_result[s])
               shown == IF click THEN out.df
                        ELSE last_search_result[s]
               rows == IF state_user # NoUser
                       THEN update_with_user_data(shown, watch_history, mylist,
                                                  user_id)
                       ELSE <<>>
           IN /\ session_user' = [session_user EXCEPT ![s] = state_user]
              /\ last_search_result' =
                    [last_search_result EXCEPT
                        ![s] = IF click THEN out.cache ELSE @]
              /\ run' = [run EXCEPT
                    ![s] = IF rows = <<>> THEN Idle
                           ELSE [page |-> "Movie Search", user |-> user_id,
                                 target |-> state_user, rows |-> rows,
                                 delete |-> FALSE, committed |-> 0,
                                 created |-> {}]]
              /\ watch_history' =
                    IF shown # <<>>
                    THEN tables_after_overlay(watch_history, mylist).wh
                    ELSE watch_history
              /\ mylist' =
                    IF shown # <<>>
                    THEN tables_after_overlay(watch_history, mylist).ml
                    ELSE mylist
    /\ runs_left' = runs_left - 1
    /\ UNCHANGED <<last_step, search_in, search_out>>

\* main() with "My Lists" selected: show_my_lists_page(user_id).  An empty
\* consolidated frame ends the page before any row or button is drawn.
RunMyLists(s) ==
    /\ run[s] = Idle
    /\ runs_left > 0
    /\ \E login \in {NoUser} \cup Users, delete \in BOOLEAN :
        /\ delete => login = NoUser
        /\ LET user_id == session_user[s]
               consolidated_df ==
                   get_consolidated_dataframe(watch_history, mylist, user_id)
           IN /\ session_user' =
                    [session_user EXCEPT ![s] = handle_user_login(@, login)]
              /\ run' = [run EXCEPT
                    ![s] = IF consolidated_df = <<>> THEN Idle
                           ELSE [page |-> "My Lists", user |-> user_id,
                                 target |-> user_id, rows |-> consolidated_df,
                                 delete |-> delete, committed |-> 0,
                                 created |-> {}]]
    /\ runs_left' = runs_left - 1
    /\ UNCHANGED <<watch_history, mylist, last_search_result, last_step,
                   search_in, search_out>>

\* main() with "User Profile" selected: the page touches neither relation
RunUserProfile(s) ==
    /\ run[s] = Idle
    /\ runs_left > 0
    /\ \E login \in Users :
        session_user' = [session_user EXCEPT ![s] = handle_user_login(@, login)]
    /\ runs_left' = runs_left - 1
    /\ UNCHANGED <<watch_history, mylist, last_search_result, run, last_step,
                   search_in, search_out>>


\* One displayed row of the run in progress: display_movie_entry on the list
\* page, the body of the loop of display_search_result on the search page.
\* An exception ends the script run; the rows behind it stay unhandled.
HandleRow(s) ==
    /\ run[s].rows # <<>>
    /\ LET r == run[s]
           row == Head(r.rows)
       IN \E e \in (IF r.page = "My Lists" THEN ListEdits(row) ELSE SearchEdits) :
            LET out == IF r.page = "My Lists"
                       THEN display_movie_entry(watch_history, mylist, r.target,
                                                row, e)
                       ELSE display_search_row(watch_history, mylist, r.target,
                                               row, e)
                rest == Tail(r.rows)
                changed == out.wh # watch_history \/ out.ml # mylist
                creates == /\ ~HasKey(watch_history, r.target, row.movie_id)
                           /\ HasKey(out.wh, r.target, row.movie_id)
            IN /\ watch_history' = out.wh
               /\ mylist' = out.ml
               /\ run' = [run EXCEPT
                     ![s] = IF out.exc # "" \/ (rest = <<>> /\ ~r.delete)
                            THEN Idle
                            ELSE [r EXCEPT
                                    !.rows = rest,
                                    !.committed = IF changed THEN @ + 1 ELSE @,
                                    !.created = IF creates
                                                THEN @ \cup {row.movie_id}
                                                ELSE @]]
               /\ last_step' =
                     [kind |-> "row", session |-> s, page |-> r.page,
                      flags_user |-> r.user, user |-> r.target, prev |-> row,
                      edit |-> e, exc |-> out.exc, sqlite_error |-> FALSE,
                      again |-> Repeats(last_step, s, r, row, e),
                      committed |-> r.committed, created |-> r.created]
    /\ UNCHANGED <<session_user, last_search_result, runs_left, search_in, search_out>>

\* the button handled while rows of the run are still to come
DeleteWatchHistoryEarly(s) ==
    /\ run[s].delete
    /\ \E sqlite_error \in BOOLEAN :
        /\ watch_history' = delete_complete_watch_history(watch_history,
                                                          run[s].user, sqlite_error)
        /\ last_step' =
              [kind |-> "bulk", session |-> s, page |-> run[s].page,
               flags_user |-> run[s].user, user |-> run[s].user,
               prev |-> RowsToSeq(UserRows(watch_history, run[s].user)),
               edit |-> NoEdit, exc |-> "", sqlite_error |-> sqlite_error,
               again |-> FALSE, committed |-> run[s].committed,
               created |-> run[s].created]
    /\ run' = [run EXCEPT ![s] = IF run[s].rows = <<>> THEN Idle
                                 ELSE [run[s] EXCEPT !.delete = FALSE]]
    /\ UNCHANGED <<mylist, session_user, last_search_result, runs_left, search_in,
                   search_out>>

\* lines 73-74 of my_lists.py: the "Delete Watch History" button, drawn after
\* the last row
DeleteWatchHistory(s) ==
    /\ run[s].rows = <<>>
    /\ run[s].delete
    /\ \E sqlite_error \in BOOLEAN :
        /\ watch_history' = delete_complete_watch_history(watch_history,
                                                          run[s].user, sqlite_error)
        /\ last_step' =
              [kind |-> "bulk", session |-> s, page |-> run[s].page,
               flags_user |-> run[s].user, user |-> run[s].user,
               prev |-> RowsToSeq(UserRows(watch_history, run[s].user)),
               edit |-> NoEdit, exc |-> "", sqlite_error |-> sqlite_error,
               again |-> FALSE, committed |-> run[s].committed,
               created |-> run[s].created]
    /\ run' = [run EXCEPT ![s] = Idle]
    /\ UNCHANGED <<mylist, session_user, last_search_result, runs_left, search_in,
                   search_out>>

Next ==
    \E s \in Sessions :
        \/ RunMovieSearch(s)
        \/ RunMyLists(s)
        \/ RunUserProfile(s)
        \/ HandleRow(s)
        \/ DeleteWatchHistory(s)

Spec == Init /\ [][Next]_vars

\* Two runs in a row, or two runs at once, of sessions of user 1
FreshInit ==
    /\ \E st \in {Fresh, Queued(Fresh, 1), Dated(Fresh, 1)} :
          watch_history = st.wh /\ mylist = st.ml
    /\ session_user = [s \in Sessions |-> 1]
    /\ last_search_result = [s \in Sessions |-> <<>>]
    /\ run = [s \in Sessions |-> Idle]
    /\ runs_left = MaxFreshRuns
    /\ last_step = NoStep
    /\ search_in = NoFilters
    /\ search_out = NoOutcome

FreshSpec == FreshInit /\ [][Next]_vars

\* Two sessions of user 1 on a database in which the user has watched movies
\* 1 and 2 and has movie 1 on the list, so that the list page has two rows
RaceInit ==
    /\ LET st == DatedAnd(Fresh, 1)
       IN watch_history = st.wh /\ mylist = st.ml
    /\ session_user = [s \in Sessions |-> 1]
    /\ last_search_result = [s \in Sessions |-> <<>>]
    /\ run = [s \in Sessions |-> Idle]
    /\ runs_left = MaxFreshRuns
    /\ last_step = NoStep
    /\ search_in = NoFilters
    /\ search_out = NoOutcome

RaceSpec == RaceInit /\ [][Next]_vars

----------------------------------------------------------------------------
(* The services alone: create calls with any ids.  The movie and user tables  *)
(* hold the ids Movies and Users; mylist and watch_history declare            *)
(* ForeignKey('user.user_id') and ForeignKey('movie.movie_id'), and no        *)
(* connection issues PRAGMA foreign_keys=ON, so SQLite does not check them.   *)

MaxCalls == 2

NoSuchMovie == NumMovies + 1
NoSuchUser == NumUsers + 1

ServiceInit ==
    /\ \E st \in Seeds : watch_history = st.wh /\ mylist = st.ml
    /\ session_user = [s \in Sessions |-> NoUser]
    /\ last_search_result = [s \in Sessions |-> <<>>]
    /\ run = [s \in Sessions |-> Idle]
    /\ runs_left = MaxCalls
    /\ last_step = NoStep
    /\ search_in = NoFilters
    /\ search_out = NoOutcome

\* MylistService().create_mylist(u, m)
CallCreateMylist ==
    /\ runs_left > 0
    /\ \E u \in Users, m \in Movies \cup {NoSuchMovie} :
          LET out == create_mylist(mylist, u, m)
          IN /\ mylist' = out.t
             /\ last_step' = [NoStep EXCEPT !.kind = "create_mylist",
                                            !.user = u,
                                            !.prev = [movie_id |-> m],
                                            !.exc = out.exc]
    /\ runs_left' = runs_left - 1
    /\ UNCHANGED <<watch_history, session_user, last_search_result, run,
                   search_in, search_out>>

\* WatchHistoryService().create_watch_history(u, m, now, None, False)
CallCreateWatchHistory ==
    /\ runs_left > 0
    /\ \E u \in Users, m \in Movies \cup {NoSuchMovie} :
          LET out == create_watch_history(watch_history, u, m, NOW, RNone, PyFalse)
          IN /\ watch_history' = out.t
             /\ last_step' = [NoStep EXCEPT !.kind = "create_watch_history",
                                            !.user = u,
                                            !.prev = [movie_id |-> m],
                                            !.exc = out.exc]
    /\ runs_left' = runs_left - 1
    /\ UNCHANGED <<mylist, session_user, last_search_result, run,
                   search_in, search_out>>

\* MylistService().delete_mylist(u, m); last_step'.prev.present tells
\* whether the key had a row when the call was made
CallDeleteMylist ==
    /\ runs_left > 0
    /\ \E u \in Users, m \in Movies \cup {NoSuchMovie} :
          LET out == delete_mylist(mylist, u, m)
          IN /\ mylist' = out.t
             /\ last_step' = [NoStep EXCEPT !.kind = "delete_mylist",
                                            !.user = u,
                                            !.prev = [movie_id |-> m,
                                                      present |-> HasKey(mylist, u, m)],
                                            !.exc = out.exc]
    /\ runs_left' = runs_left - 1
    /\ UNCHANGED <<watch_history, session_user, last_search_result, run,
                   search_in, search_out>>

\* WatchHistoryService().delete_watch_history(u, m)
CallDeleteWatchHistory ==
    /\ runs_left > 0
    /\ \E u \in Users, m \in Movies \cup {NoSuchMovie} :
          LET out == delete_watch_history(watch_history, u, m)
          IN /\ watch_history' = out.t
             /\ last_step' = [NoStep EXCEPT !.kind = "delete_watch_history",
                                            !.user = u,
                                            !.prev = [movie_id |-> m,
                                                      present |-> HasKey(watch_history, u, m)],
                                            !.exc = out.exc]
    /\ runs_left' = runs_left - 1
    /\ UNCHANGED <<mylist, session_user, last_search_result, run,
                   search_in, search_out>>

\* WatchHistoryService().update_watch_history(u, m, date, rating, favorite)
CallUpdateWatchHistory ==
    /\ runs_left > 0
    /\ \E u \in Users, m \in Movies \cup {NoSuchMovie}, d \in PickDates :
          LET out == update_watch_history(watch_history, u, m, d,
                                          Num(SLIDER_MAX), PyTrue)
          IN /\ watch_history' = out.t
             /\ last_step' = [NoStep EXCEPT !.kind = "update_watch_history",
                                            !.user = u,
                                            !.prev = [movie_id |-> m,
                                                      present |-> HasKey(watch_history, u, m)],
                                            !.exc = out.exc]
    /\ runs_left' = runs_left - 1
    /\ UNCHANGED <<mylist, session_user, last_search_result, run,
                   search_in, search_out>>

ServiceNext ==
    \/ CallCreateMylist
    \/ CallCreateWatchHistory
    \/ CallDeleteMylist
    \/ CallDeleteWatchHistory
    \/ CallUpdateWatchHistory

ServiceSpec == ServiceInit /\ [][ServiceNext]_vars

----------------------------------------------------------------------------
(* The search alone: any filter inputs, one Search click *)

\* the session that clicks Search; its cache holds nothing or the result of
\* an earlier search
SearchSession == "s1"

SearchInit ==
    /\ watch_history = EmptyBag
    /\ mylist = EmptyBag
    /\ session_user = [s \in Sessions |-> NoUser]
    /\ \E earlier \in {<<>>, <<1>>} :
          last_search_result =
              [s \in Sessions |-> IF s = SearchSession THEN earlier ELSE <<>>]
    /\ run = [s \in Sessions |-> Idle]
    /\ runs_left = MaxRuns
    /\ last_step = NoStep
    /\ search_in \in Filters
    /\ search_out = NoOutcome

\* lines 89-102: a click on Search in session SearchSession
SearchClick ==
    /\ search_out.kind = "idle"
    /\ LET out == search_button(search_in, last_search_result[SearchSession])
       IN /\ search_out' = [kind |-> out.kind, df |-> out.df,
                            raised_in |-> out.raised_in,
                            later |-> [done |-> FALSE, df |-> <<>>]]
          /\ last_search_result' =
                [last_search_result EXCEPT ![SearchSession] = out.cache]
    /\ UNCHANGED <<watch_history, mylist, session_user, run, runs_left,
                   last_step, search_in>>

\* lines 103-107: a later script run of the session without a click on
\* Search shows st.session_state['last_search_result'] when there is one;
\* search_out.later.df is what it shows
SearchRedisplay ==
    /\ search_out.kind # "idle"
    /\ ~search_out.later.done
    /\ search_out' =
          [search_out EXCEPT
              !.later = [done |-> TRUE, df |-> last_search_result[SearchSession]]]
    /\ UNCHANGED <<watch_history, mylist, session_user, last_search_result, run,
                   runs_left, last_step, search_in>>

SearchNext == SearchClick \/ SearchRedisplay

SearchSpec == SearchInit /\ [][SearchNext]_vars

----------------------------------------------------------------------------
(* Properties *)

ActiveFacets(f) == {n \in Facets : f[n].active}

\* the movies every active facet's query returns
Intersection(f) == {m \in Movies : \A n \in ActiveFacets(f) : m \in f[n].ids}

NoDuplicates(df) == \A i, j \in 1..Len(df) : df[i] = df[j] => i = j

\* C1: whenever at least one facet is active, whatever the queries return, the
\* search result holds each movie id at most once, its id set is the
\* intersection of the active facets' results, and the same id set comes out
\* for every order of the queries.
C1_SearchIsIntersection ==
    (search_out.kind # "idle" /\ ActiveFacets(search_in) # {}) =>
        LET result_sets == execute_queries(search_in)
        IN /\ NoDuplicates(search_out.df)
           /\ IdSet(search_out.df) = Intersection(search_in)
           /\ \A p \in Permutations(1..Len(result_sets)) :
                 LET permuted == [i \in 1..Len(result_sets) |-> result_sets[p[i]]]
                 IN /\ NoDuplicates(intersect_results(permuted))
                    /\ IdSet(intersect_results(permuted)) = Intersection(search_in)

\* a search of several facets with different results, some movie in all of them
C1_Witness ==
    /\ search_out.kind = "result"
    /\ \E a, b \in ActiveFacets(search_in) : search_in[a].ids # search_in[b].ids
    /\ IdSet(search_out.df) = Intersection(search_in)
    /\ search_out.df # <<>>

----------------------------------------------------------------------------
(* Steps.  While a run of session s has rows left, its only step is           *)
(* HandleRow(s); the edit it applied is last_step'.edit.                       *)

RowStep(s) == run[s].rows # <<>> /\ run'[s] # run[s]

BulkStep(s) == run[s].rows = <<>> /\ run[s].delete /\ run'[s] # run[s]

\* the date picker, the favorite checkbox and the slider returned what they
\* displayed
FieldsUntouched(page, row, e) ==
    page = "My Lists" =>
        /\ row.rating # RNone
        /\ e = ListEdit(row, e.in_watch_history, e.in_mylist, "none")

Toggled(prev, new) == Truthy(prev) # Truthy(new)

\* C2: a step that toggles only the watch-history checkbox of a row leaves the
\* mylist table as it was, and a step that toggles only the mylist checkbox
\* leaves the watch_history table as it was.
C2_PerRelationFrame ==
    [][\A s \in Sessions :
          RowStep(s) =>
            LET row == Head(run[s].rows)
                e == last_step'.edit
            IN FieldsUntouched(run[s].page, row, e) =>
                 /\ (Toggled(row.in_watch_history, e.in_watch_history)
                        /\ ~Toggled(row.in_mylist, e.in_mylist))
                       => mylist' = mylist
                 /\ (Toggled(row.in_mylist, e.in_mylist)
                        /\ ~Toggled(row.in_watch_history, e.in_watch_history))
                       => watch_history' = watch_history]_vars

\* C3: in every reachable state each table holds at most one row per
\* (user_id, movie_id), also after two sessions that both saw the pair absent
\* have both issued their create.
C3_UniqueKeys ==
    \A u \in Users, m \in Movies :
        KeyCount(watch_history, u, m) <= 1 /\ KeyCount(mylist, u, m) <= 1

\* the second of two racing creates was refused
C3_Witness ==
    /\ last_step.kind = "row"
    /\ last_step.exc = "IntegrityError"
    /\ last_step.flags_user = last_step.user
    /\ \/ /\ ~Truthy(last_step.prev.in_mylist)
          /\ Truthy(last_step.edit.in_mylist)
          /\ KeyCount(mylist, last_step.user, last_step.prev.movie_id) = 1
       \/ /\ ~Truthy(last_step.prev.in_watch_history)
          /\ Truthy(last_step.edit.in_watch_history)
          /\ KeyCount(watch_history, last_step.user, last_step.prev.movie_id) = 1

\* C4: a render that applies to (user, movie) the widget values the previous
\* render applied to it, nothing having happened in between, changes neither
\* table and raises nothing.
C4_Idempotent ==
    [][\A s \in Sessions :
          (RowStep(s) /\ last_step'.again) =>
              /\ watch_history' = watch_history
              /\ mylist' = mylist
              /\ last_step'.exc = ""]_vars

\* the second of two applications that ask for membership in both tables
C4_Witness ==
    /\ last_step.kind = "row"
    /\ last_step.again
    /\ Truthy(last_step.edit.in_mylist)
    /\ Truthy(last_step.edit.in_watch_history)
    /\ KeyCount(mylist, last_step.user, last_step.prev.movie_id) = 1
    /\ KeyCount(watch_history, last_step.user, last_step.prev.movie_id) = 1

RowOf(df, m) == df[CHOOSE i \in 1..Len(df) : df[i].movie_id = m]

\* C5: for every user, the consolidated frame has a row for a movie exactly
\* when the user has a watch_history or a mylist row for it, one row per such
\* movie, and the row's in_watch_history and in_mylist are true exactly when
\* the watch_history row and the mylist row exist (an empty frame when the
\* user has neither).
C5_ConsolidateExact ==
    \A u \in Users :
        LET df == get_consolidated_dataframe(watch_history, mylist, u)
        IN /\ \A i, j \in 1..Len(df) : df[i].movie_id = df[j].movie_id => i = j
           /\ \A m \in Movies :
                /\ m \in MovieIds(df) <=>
                      (HasKey(watch_history, u, m) \/ HasKey(mylist, u, m))
                /\ m \in MovieIds(df) =>
                      /\ Truthy(RowOf(df, m).in_watch_history)
                            <=> HasKey(watch_history, u, m)
                      /\ Truthy(RowOf(df, m).in_mylist) <=> HasKey(mylist, u, m)

\* C6: for every user, before the watch dates are filled, the row of a movie
\* that is only on the user's list has in_watch_history False, rating 0 and no
\* watch_date and no is_favorite, whatever else the user's watch history holds.
C6_MylistOnlyDefaults ==
    \A u \in Users :
        LET df == merge_frames(watch_history, mylist, u)
        IN \A i \in 1..Len(df) :
             ~HasKey(watch_history, u, df[i].movie_id) =>
                 /\ df[i].in_watch_history = PyFalse
                 /\ df[i].rating = Num(MYLIST_ONLY_RATING)
                 /\ df[i].watch_date \in {PyNone, NaN}
                 /\ df[i].is_favorite \in {PyNone, NaN}

\* C7: a step of a render that shows the flags of the user it mutates, with a
\* membership flag false in the row and its checkbox ticked, leaves exactly
\* one row for (user, movie) in that table where there was none; the new
\* watch_history row holds the current date unless the date picker was set.
C7_AbsentToPresent ==
    [][\A s \in Sessions :
          (RowStep(s) /\ run[s].user = run[s].target /\ last_step'.exc = "") =>
            LET row == Head(run[s].rows)
                e == last_step'.edit
                u == run[s].target
                m == row.movie_id
            IN /\ (~Truthy(row.in_mylist) /\ Truthy(e.in_mylist)) =>
                     (~HasKey(mylist, u, m) /\ KeyCount(mylist', u, m) = 1)
               /\ (~Truthy(row.in_watch_history) /\ Truthy(e.in_watch_history)) =>
                     /\ ~HasKey(watch_history, u, m)
                     /\ KeyCount(watch_history', u, m) = 1
                     /\ (run[s].page = "My Lists" => e.watch_date # row.watch_date)
                        \/ read_watch_history(watch_history', u, m).watch_date = NOW
          ]_vars

\* C8: no stored watch_history row has the date 1970-01-01 (the date picker is
\* never set to it).
C8_SentinelNotStored ==
    \A r \in BagToSet(watch_history) : r.watch_date # EPOCH

\* C9: a step that draws the widgets of a row, with a membership flag true in
\* the row and its checkbox unticked, leaves no row for (user, movie) in that
\* table, provided the handler of that table was reached (the handler called
\* first raised nothing).
C9_PresentToAbsent ==
    [][\A s \in Sessions :
          (RowStep(s) /\ last_step'.exc # "TypeError") =>
            LET row == Head(run[s].rows)
                e == last_step'.edit
                u == run[s].target
                m == row.movie_id
                list_page == run[s].page = "My Lists"
                reached(second) == second => last_step'.exc = ""
            IN /\ (Truthy(row.in_mylist) /\ ~Truthy(e.in_mylist)
                     /\ reached(list_page)) => ~HasKey(mylist', u, m)
               /\ (Truthy(row.in_watch_history) /\ ~Truthy(e.in_watch_history)
                     /\ reached(~list_page)) => ~HasKey(watch_history', u, m)
          ]_vars

\* both checkboxes of a row of both tables were unticked, on the list page
C9_Witness ==
    /\ last_step.kind = "row"
    /\ last_step.page = "My Lists"
    /\ last_step.flags_user = last_step.user
    /\ last_step.prev.in_mylist = PyTrue
    /\ last_step.prev.in_watch_history = PyTrue
    /\ ~Truthy(last_step.edit.in_mylist)
    /\ ~Truthy(last_step.edit.in_watch_history)
    /\ ~HasKey(mylist, last_step.user, last_step.prev.movie_id)
    /\ ~HasKey(watch_history, last_step.user, last_step.prev.movie_id)

\* C10: the bulk delete of user u, when its DELETE statement succeeds, leaves
\* no watch_history row of u, and leaves the mylist table and the
\* watch_history rows of every other user as they were.
C10_BulkDeleteFrame ==
    [][\A s \in Sessions :
          (BulkStep(s) /\ ~last_step'.sqlite_error) =>
              /\ UserRows(watch_history', run[s].user) = EmptyBag
              /\ mylist' = mylist
              /\ \A v \in Users \ {run[s].user} :
                    UserRows(watch_history', v) = UserRows(watch_history, v)
          ]_vars

\* a bulk delete that removed rows of a user who has mylist rows, with
\* watch_history rows of another user in the table
C10_Witness ==
    /\ last_step.kind = "bulk"
    /\ ~last_step.sqlite_error
    /\ last_step.prev # <<>>
    /\ UserRows(watch_history, last_step.user) = EmptyBag
    /\ UserRows(mylist, last_step.user) # EmptyBag
    /\ \E v \in Users \ {last_step.user} : UserRows(watch_history, v) # EmptyBag

\* a NULL rating reads back as None or as NaN
SameRating(cell, stored) ==
    IF stored = RNone THEN cell \in {RNone, RNaN} ELSE cell = stored

\* C11: right after a watch_history row is created for (user, movie), the
\* user's consolidated frame has a row for the movie with in_watch_history
\* True and the date, rating and favorite the create stored; right after the
\* row is deleted, the frame has no row for the movie when it is not on the
\* user's list, and a row with in_watch_history false when it is.
C11_RoundTrip ==
    [][\A u \in Users, m \in Movies :
          LET df == get_consolidated_dataframe(watch_history', mylist', u)
          IN /\ (~HasKey(watch_history, u, m) /\ HasKey(watch_history', u, m)) =>
                  /\ m \in MovieIds(df)
                  /\ RowOf(df, m).in_watch_history = PyTrue
                  /\ RowOf(df, m).watch_date
                        = read_watch_history(watch_history', u, m).watch_date
                  /\ RowOf(df, m).is_favorite
                        = read_watch_history(watch_history', u, m).is_favorite
                  /\ SameRating(RowOf(df, m).rating,
                                read_watch_history(watch_history', u, m).rating)
             /\ (HasKey(watch_history, u, m) /\ ~HasKey(watch_history', u, m)) =>
                  IF HasKey(mylist', u, m)
                  THEN m \in MovieIds(df) /\ ~Truthy(RowOf(df, m).in_watch_history)
                  ELSE m \notin MovieIds(df)
          ]_vars

\* C12: a search with no active facet shows no movies, and what the page
\* shows for it differs from what it shows when some active facet matched
\* nothing, whichever facet that is.
C12_NoFiltersDistinct ==
    search_out.kind # "idle" =>
        /\ ActiveFacets(search_in) = {} => search_out.df = <<>>
        /\ (/\ raising_query(search_in) = ""
            /\ \E n \in ActiveFacets(search_in) : search_in[n].ids = {}) =>
               LET none == search_button(NoFilters, last_search_result[SearchSession])
               IN search_out.kind # none.kind

\* the non-empty frames of distinct movies a search can return
MovieFrames ==
    {df \in UNION {[1..n -> Movies] : n \in 1..NumMovies} : NoDuplicates(df)}

\* C13: for every user (and for no user) and every non-empty frame of movies,
\* update_with_user_data returns one row per movie of the frame, in the
\* frame's order, whose in_watch_history and in_mylist are True exactly when
\* the user has a watch_history row, a mylist row, for that movie and False
\* otherwise; the rows a search page run works on are such rows.
C13_OverlayTotal ==
    /\ \A u \in {NoUser} \cup Users, df \in MovieFrames :
          LET out == update_with_user_data(df, watch_history, mylist, u)
          IN /\ Len(out) = Len(df)
             /\ \A i \in 1..Len(df) :
                   /\ out[i].movie_id = df[i]
                   /\ out[i].in_watch_history
                         = PyBool(HasKey(watch_history, u, df[i]))
                   /\ out[i].in_mylist = PyBool(HasKey(mylist, u, df[i]))
    /\ \A s \in Sessions :
          run[s].page = "Movie Search" =>
              \A i \in 1..Len(run[s].rows) :
                  /\ run[s].rows[i].in_watch_history \in PyBools
                  /\ run[s].rows[i].in_mylist \in PyBools

\* a search page run over two movies, one only watched, the other only listed
C13_Witness ==
    \E s \in Sessions :
        /\ run[s].page = "Movie Search"
        /\ Len(run[s].rows) = 2
        /\ run[s].rows
             = update_with_user_data(<<run[s].rows[1].movie_id,
                                       run[s].rows[2].movie_id>>,
                                     watch_history, mylist, run[s].user)
        /\ run[s].rows[1].in_watch_history # run[s].rows[2].in_watch_history
        /\ run[s].rows[1].in_mylist # run[s].rows[2].in_mylist

\* C14: a list page step on a row drawn with "In Watch History" ticked, in
\* which the checkbox stays ticked and the date, the rating and the favorite
\* widgets are left as they were drawn, leaves the watch_history table as it
\* was.
C14_UnchangedIsNoOp ==
    [][\A s \in Sessions :
          (RowStep(s) /\ run[s].page = "My Lists") =>
            LET row == Head(run[s].rows)
                e == last_step'.edit
            IN (/\ Truthy(row.in_watch_history)
                /\ Truthy(e.in_watch_history)
                /\ FieldsUntouched(run[s].page, row, e))
                  => watch_history' = watch_history]_vars

\* the date, the rating or the favorite of the edit differs from the row drawn
FieldsDiffer(row, e) ==
    \/ e.watch_date # row.watch_date
    \/ Num(e.rating) # row.rating
    \/ e.is_favorite # row.is_favorite

\* C15: a list page step on a row drawn with "In Watch History" ticked, in
\* which the checkbox stays ticked and at least one of date, rating and
\* favorite is changed, ends with a watch_history row for the movie whose
\* date, rating and favorite are the three values of the edit.
C15_ChangedFieldsStored ==
    [][\A s \in Sessions :
          (RowStep(s) /\ run[s].page = "My Lists") =>
            LET row == Head(run[s].rows)
                e == last_step'.edit
                u == run[s].target
                m == row.movie_id
            IN (/\ Truthy(row.in_watch_history)
                /\ Truthy(e.in_watch_history)
                /\ last_step'.exc = ""
                /\ FieldsDiffer(row, e))
                  => /\ HasKey(watch_history', u, m)
                     /\ LET new == read_watch_history(watch_history', u, m)
                        IN /\ new.watch_date = e.watch_date
                           /\ new.rating = Num(e.rating)
                           /\ new.is_favorite = e.is_favorite]_vars

\* C16: a step whose first handler issues a create for a (user, movie) that
\* already has a row in the table (the row was drawn with the flag unset)
\* leaves exactly one row for the key and returns normally, so that the pass
\* goes on with the other relation and the later rows.
C16_DuplicateCreateIgnored ==
    [][\A s \in Sessions :
          RowStep(s) =>
            LET row == Head(run[s].rows)
                e == last_step'.edit
                u == run[s].target
                m == row.movie_id
            IN /\ (/\ run[s].page = "Movie Search"
                    /\ ~Truthy(row.in_mylist) /\ Truthy(e.in_mylist)
                    /\ HasKey(mylist, u, m))
                      => KeyCount(mylist', u, m) = 1 /\ last_step'.exc = ""
               /\ (/\ run[s].page = "My Lists"
                    /\ row.rating # RNone
                    /\ ~Truthy(row.in_watch_history) /\ Truthy(e.in_watch_history)
                    /\ HasKey(watch_history, u, m))
                      => KeyCount(watch_history', u, m) = 1 /\ last_step'.exc = ""
          ]_vars

\* the active facets whose query raises
FailingFacets(f) == {n \in ActiveFacets(f) : f[n].fails}

C18_NoRollback ==
    [][\A s \in Sessions :
          (RowStep(s) /\ run[s].page = "My Lists" /\ last_step'.exc # "") =>
            LET row == Head(run[s].rows)
                e == last_step'.edit
                a == handle_watch_history_update(watch_history, run[s].target,
                         row, e.in_watch_history, e.watch_date, e.rating,
                         e.is_favorite)
            IN /\ mylist' = mylist
               /\ watch_history' =
                     IF row.rating # RNone /\ a.exc = "" THEN a.t
                     ELSE watch_history
               /\ run'[s] = Idle]_vars

\* a list page run in which an earlier row changed a table and the create of
\* a later row fails
C18_Witness ==
    /\ last_step.kind = "row"
    /\ last_step.page = "My Lists"
    /\ last_step.exc = "IntegrityError"
    /\ last_step.committed > 0

\* C19: a create for a movie id that is not in the movie table raises and
\* stores nothing, so no mylist or watch_history row ever names such a movie;
\* and update_with_user_data answers False, False for a movie id or a user id
\* that does not exist.
C19_NonexistentMovieRejected ==
    /\ (/\ last_step.kind \in {"create_mylist", "create_watch_history"}
        /\ last_step.prev.movie_id \notin Movies) => last_step.exc # ""
    /\ \A r \in BagToSet(mylist) \cup BagToSet(watch_history) :
          r.movie_id \in Movies
    /\ \A u \in Users \cup {NoSuchUser}, m \in Movies \cup {NoSuchMovie} :
          (u = NoSuchUser \/ m = NoSuchMovie) =>
              LET out == update_with_user_data(<<m>>, watch_history, mylist, u)
              IN out[1].in_watch_history = PyFalse /\ out[1].in_mylist = PyFalse

\* C20: for every user and every movie the user has a watch_history row for,
\* the consolidated frame has exactly one row for the movie; its
\* in_watch_history is True, its in_mylist is True when the user has the
\* movie on the list and False when not, and its watch_date, rating and
\* is_favorite are those of the stored watch_history row (a NULL rating
\* reads as None or NaN).
C20_WatchedRows ==
    \A u \in Users, m \in Movies :
        HasKey(watch_history, u, m) =>
            LET df == get_consolidated_dataframe(watch_history, mylist, u)
                stored == read_watch_history(watch_history, u, m)
            IN /\ Cardinality({i \in 1..Len(df) : df[i].movie_id = m}) = 1
               /\ RowOf(df, m).in_watch_history = PyTrue
               /\ RowOf(df, m).in_mylist = PyBool(HasKey(mylist, u, m))
               /\ RowOf(df, m).watch_date = stored.watch_date
               /\ RowOf(df, m).is_favorite = stored.is_favorite
               /\ SameRating(RowOf(df, m).rating, stored.rating)

\* a list page run that shows a movie both watched and listed and a movie
\* only watched
C20_Witness ==
    \E s \in Sessions :
        /\ run[s].page = "My Lists"
        /\ run[s].rows =
              get_consolidated_dataframe(watch_history, mylist, run[s].user)
        /\ \E i, j \in 1..Len(run[s].rows) :
              /\ run[s].rows[i].in_watch_history = PyTrue
              /\ run[s].rows[i].in_mylist = PyTrue
              /\ HasKey(mylist, run[s].user, run[s].rows[i].movie_id)
              /\ run[s].rows[j].in_watch_history = PyTrue
              /\ run[s].rows[j].in_mylist = PyFalse

Unqueried == {[active |-> FALSE, ids |-> S, fails |-> b] :
                 S \in SUBSET Movies, b \in BOOLEAN}

\* C22: execute_queries issues one query per facet whose input is not empty
\* and none for the others, and what the Search click shows does not depend
\* on what the query of a facet left empty would return or raise: it is what
\* the other facets alone produce.
C22_EmptyFacetSkipped ==
    search_out.kind # "idle" =>
        /\ Len(execute_queries(search_in)) = Cardinality(ActiveFacets(search_in))
        /\ \A n \in Facets \ ActiveFacets(search_in), q \in Unqueried :
              LET others == [search_in EXCEPT ![n] = q]
                  out == search_button(others, <<>>)
              IN /\ out.kind = search_out.kind
                 /\ out.df = search_out.df
                 /\ out.raised_in = search_out.raised_in

\* a search in which some facets are left empty and the others narrow the
\* catalog to some of its movies
C22_Witness ==
    /\ search_out.kind = "result"
    /\ ActiveFacets(search_in) \notin {{}, Facets}
    /\ IdSet(search_out.df) \notin {{}, Movies}

\* the step handles the row of movie m for user u in session s
RowStepOf(s, u, m) ==
    /\ RowStep(s)
    /\ last_step'.session = s
    /\ run[s].target = u
    /\ Head(run[s].rows).movie_id = m

\* the checkbox `flag` of the row handled was drawn unticked and returns
\* ticked (on), was drawn ticked and returns unticked (off)
TogglesOn(s, flag) ==
    ~Truthy(Head(run[s].rows)[flag]) /\ Truthy(last_step'.edit[flag])

TogglesOff(s, flag) ==
    Truthy(Head(run[s].rows)[flag]) /\ ~Truthy(last_step'.edit[flag])

\* C23: for every user and movie, a watch_history row appears only in a row
\* step for that user and movie whose watch-history checkbox is toggled on,
\* changes only in a list page row step for them whose checkbox was and stays
\* ticked, and disappears only in a row step for them whose checkbox is
\* toggled off or in the "Delete Watch History" step of that user; a mylist
\* row appears only in a row step that toggles the list checkbox on and
\* disappears only in one that toggles it off.  No other step changes a row.
C23_Lifecycle ==
    [][\A u \in Users, m \in Movies :
          /\ (~HasKey(watch_history, u, m) /\ HasKey(watch_history', u, m)) =>
                \E s \in Sessions :
                    RowStepOf(s, u, m) /\ TogglesOn(s, "in_watch_history")
          /\ (/\ HasKey(watch_history, u, m) /\ HasKey(watch_history', u, m)
              /\ read_watch_history(watch_history', u, m)
                    # read_watch_history(watch_history, u, m)) =>
                \E s \in Sessions :
                    /\ RowStepOf(s, u, m)
                    /\ run[s].page = "My Lists"
                    /\ Truthy(Head(run[s].rows).in_watch_history)
                    /\ Truthy(last_step'.edit.in_watch_history)
          /\ (HasKey(watch_history, u, m) /\ ~HasKey(watch_history', u, m)) =>
                \E s \in Sessions :
                    \/ RowStepOf(s, u, m) /\ TogglesOff(s, "in_watch_history")
                    \/ BulkStep(s) /\ run[s].user = u
          /\ (~HasKey(mylist, u, m) /\ HasKey(mylist', u, m)) =>
                \E s \in Sessions :
                    RowStepOf(s, u, m) /\ TogglesOn(s, "in_mylist")
          /\ (HasKey(mylist, u, m) /\ ~HasKey(mylist', u, m)) =>
                \E s \in Sessions :
                    RowStepOf(s, u, m) /\ TogglesOff(s, "in_mylist")
          ]_vars

\* a list page step that has updated the rating of a watched movie and put
\* the movie on the list
C23_Witness ==
    /\ last_step.kind = "row"
    /\ last_step.page = "My Lists"
    /\ Truthy(last_step.prev.in_watch_history)
    /\ Truthy(last_step.edit.in_watch_history)
    /\ last_step.prev.rating # Num(last_step.edit.rating)
    /\ HasKey(watch_history, last_step.user, last_step.prev.movie_id)
    /\ read_watch_history(watch_history, last_step.user,
                          last_step.prev.movie_id).rating
          = Num(last_step.edit.rating)
    /\ ~Truthy(last_step.prev.in_mylist)
    /\ HasKey(mylist, last_step.user, last_step.prev.movie_id)

\* C24: a call of update_watch_history, delete_watch_history or delete_mylist
\* for a user and movie without a row in the table returns without an
\* exception and leaves watch_history and mylist as they were.
C24_AbsentIsNoError ==
    [][(/\ last_step'.kind \in {"update_watch_history", "delete_watch_history",
                                "delete_mylist"}
        /\ ~last_step'.prev.present)
          => /\ last_step'.exc = ""
             /\ watch_history' = watch_history
             /\ mylist' = mylist]_vars

\* a delete_mylist call for a movie the user does not have on a list that is
\* not empty
C24_Witness ==
    /\ last_step.kind = "delete_mylist"
    /\ ~last_step.prev.present
    /\ last_step.prev.movie_id \in Movies
    /\ UserRows(mylist, last_step.user) # EmptyBag

\* C25: when a page run has read its rows, the two membership flags of every
\* row tell whether the user the run mutates has a watch_history row, a
\* mylist row, for the movie; and a row step of the run that toggles a
\* checkbox off finds the row it deletes.
C25_FlagsMatchStorage ==
    [][\A s \in Sessions :
          /\ (run[s] = Idle /\ run'[s] # Idle) =>
                \A i \in 1..Len(run'[s].rows) :
                    LET row == run'[s].rows[i]
                    IN /\ Truthy(row.in_watch_history)
                          <=> HasKey(watch_history', run'[s].target, row.movie_id)
                       /\ Truthy(row.in_mylist)
                          <=> HasKey(mylist', run'[s].target, row.movie_id)
          /\ (RowStep(s) /\ last_step'.exc = "") =>
                LET row == Head(run[s].rows)
                IN /\ TogglesOff(s, "in_watch_history")
                        => HasKey(watch_history, run[s].target, row.movie_id)
                   /\ TogglesOff(s, "in_mylist")
                        => HasKey(mylist, run[s].target, row.movie_id)]_vars

\* C28: a search page row step that changes a table changes it for the user
\* whose rows produced the flags of the run, and a search page run of a
\* session in which nobody is logged in shows no row to act on.
C28_FlagsUserIsTarget ==
    [][\A s \in Sessions :
          /\ (/\ RowStep(s)
              /\ run[s].page = "Movie Search"
              /\ (watch_history' # watch_history \/ mylist' # mylist))
                => /\ run[s].user = run[s].target
                   /\ run[s].target # NoUser
          /\ (run[s] = Idle /\ run'[s].page = "Movie Search")
                => run'[s].target # NoUser]_vars

C27_RowsBeforeBulkDelete ==
    [][\A s \in Sessions :
          (/\ run[s].delete
           /\ run'[s] # run[s]
           /\ last_step'.kind = "bulk"
           /\ last_step'.session = s) =>
              /\ run[s].page = "My Lists"
              /\ run[s].rows = <<>>
              /\ run'[s] = Idle
              /\ mylist' = mylist
              /\ ~last_step'.sqlite_error =>
                    \A m \in Movies : ~HasKey(watch_history', run[s].user, m)
          ]_vars

\* a bulk delete at the end of a run whose row steps created a watch_history
\* row and left the user a mylist row
C27_Witness ==
    /\ last_step.kind = "bulk"
    /\ ~last_step.sqlite_error
    /\ last_step.created # {}
    /\ \A m \in last_step.created :
          \E i \in 1..Len(last_step.prev) : last_step.prev[i].movie_id = m
    /\ UserRows(watch_history, last_step.user) = EmptyBag
    /\ UserRows(mylist, last_step.user) # EmptyBag

\* C29: a "Delete Watch History" step whose DELETE statement fails with a
\* sqlite3.Error raises nothing and leaves every watch_history row, of the
\* user and of the others, and the mylist table as they were.
C29_FailedBulkDeleteRollsBack ==
    [][\A s \in Sessions :
          (BulkStep(s) /\ last_step'.sqlite_error) =>
              /\ watch_history' = watch_history
              /\ mylist' = mylist
              /\ last_step'.exc = ""
              /\ run'[s] = Idle]_vars

\* a failed bulk delete of a user who has watch_history rows, all still there
C29_Witness ==
    /\ last_step.kind = "bulk"
    /\ last_step.sqlite_error
    /\ last_step.exc = ""
    /\ last_step.prev # <<>>
    /\ RowsToSeq(UserRows(watch_history, last_step.user)) = last_step.prev

\* C30: a row step of the list page that creates or updates a watch_history
\* row leaves it with an integer rating in SLIDER_MIN..SLIDER_MAX, whatever
\* rating the row displayed; a row step of the search page that creates one
\* stores no rating, favorite False and the current time as watch date.
C30_StoredRatings ==
    [][\A s \in Sessions :
          (RowStep(s) /\ last_step'.exc = "") =>
            LET row == Head(run[s].rows)
                e == last_step'.edit
                u == run[s].target
                m == row.movie_id
                stored == read_watch_history(watch_history', u, m)
            IN /\ (/\ run[s].page = "My Lists"
                   /\ Truthy(e.in_watch_history)
                   /\ HasKey(watch_history', u, m)) =>
                     stored.rating \in {Num(n) : n \in SLIDER_MIN..SLIDER_MAX}
               /\ (/\ run[s].page # "My Lists"
                   /\ ~HasKey(watch_history, u, m)
                   /\ HasKey(watch_history', u, m)) =>
                     /\ stored.rating = RNone
                     /\ stored.is_favorite = PyFalse
                     /\ stored.watch_date = NOW
          ]_vars

====
